---- MODULE Spec2Model ----
(***************************************************************************)
(* A model of mp3-check: the silence parser (getSilenceInfo), the boundary *)
(* classifier (the six predicates), countProblems, and the two worker      *)
(* pools of analyse and fixProblems, as main runs them.                    *)
(*                                                                         *)
(* Times are fixed-point numbers in hundredths of a second, so the         *)
(* source's 0.01 is 1, 0.4 is 40, 10 is 1000.                              *)
(***************************************************************************)
EXTENDS Integers, Sequences, FiniteSets, TLC

\* ------------------------------------------------------------------ sizes
\* The largest collection explored, and the size of each worker pool (the
\* source runs 10 workers; the pools here are scaled down).
NumTracks == 2
workers == 2

\* ------------------------------------------------- constants (x 0.01 s)
tolerance == 1
maxOverlapping == 1000
maxSilence == 200
minSilence == 60
silenceTolerance == 40

AllTracks == 1..NumTracks
Workers == 1..workers

\* type silence struct { start, end }
silence(s, e) == [start |-> s, end |-> e]

\* ---------------------------------------------------- the detection tool
\* A line of the tool's diagnostic text, reduced to what the three regular
\* expressions of the source extract from it.
DurationLine(h, m, s, off) == [kind |-> "Duration", v |-> s, h |-> h, m |-> m, off |-> off]
StartLine(t) == [kind |-> "silence_start", v |-> t, h |-> 0, m |-> 0, off |-> 0]
EndLine(t) == [kind |-> "silence_end", v |-> t, h |-> 0, m |-> 0, off |-> 0]
OtherLine == [kind |-> "other", v |-> 0, h |-> 0, m |-> 0, off |-> 0]

\* strings.Split of an empty output yields one empty line.
NoOutput == <<OtherLine>>

\* ------------------------------------------------------- getSilenceInfo
RECURSIVE parseLines(_, _, _, _, _)
parseLines(lines, i, currentSilence, d, result) ==
    IF i > Len(lines) THEN [silences |-> result, duration |-> d]
    ELSE LET line == lines[i] IN
         IF line.kind = "silence_start"
         THEN parseLines(lines, i + 1, [currentSilence EXCEPT !.start = line.v], d, result)
         ELSE IF line.kind = "silence_end"
         THEN LET cur == [currentSilence EXCEPT !.end = line.v]
                  currentDuration == cur.end - cur.start
                  keep == \/ currentDuration > minSilence
                          \/ cur.start < tolerance
                          \/ d - cur.end < tolerance
              IN parseLines(lines, i + 1, cur, d,
                            IF keep THEN Append(result, cur) ELSE result)
         ELSE IF line.kind = "Duration"
         THEN parseLines(lines, i + 1, currentSilence,
                         line.h * 360000 + line.m * 6000 + line.v - line.off, result)
         ELSE parseLines(lines, i + 1, currentSilence, d, result)

\* Mutant: an interval of exactly minSilence is kept (>= for >).
RECURSIVE parseLines_atLeast(_, _, _, _, _)
parseLines_atLeast(lines, i, currentSilence, d, result) ==
    IF i > Len(lines) THEN [silences |-> result, duration |-> d]
    ELSE LET line == lines[i] IN
         IF line.kind = "silence_start"
         THEN parseLines_atLeast(lines, i + 1, [currentSilence EXCEPT !.start = line.v],
                                 d, result)
         ELSE IF line.kind = "silence_end"
         THEN LET cur == [currentSilence EXCEPT !.end = line.v]
                  currentDuration == cur.end - cur.start
                  keep == \/ currentDuration >= minSilence
                          \/ cur.start < tolerance
                          \/ d - cur.end < tolerance
              IN parseLines_atLeast(lines, i + 1, cur, d,
                                    IF keep THEN Append(result, cur) ELSE result)
         ELSE IF line.kind = "Duration"
         THEN parseLines_atLeast(lines, i + 1, currentSilence,
                                 line.h * 360000 + line.m * 6000 + line.v - line.off, result)
         ELSE parseLines_atLeast(lines, i + 1, currentSilence, d, result)

getSilenceInfo_atLeast(output) == parseLines_atLeast(output, 1, silence(0, 0), 0, <<>>)

\* The parse of one detection run's output: (result, d).
getSilenceInfo(output) == parseLines(output, 1, silence(0, 0), 0, <<>>)

\* Whether the duration expression matched some line of the output.
durationMatched(output) == \E i \in 1..Len(output) : output[i].kind = "Duration"

\* ---------------------------------------------------------- classifier
\* A profile p is the three fields of a track the predicates read:
\* [silences, longSilences, duration].
overlapsAtTheEnd(p) ==
    IF Len(p.silences) = 0 THEN FALSE
    ELSE LET lastSilence == p.silences[Len(p.silences)]
             difference == p.duration - lastSilence.end
         IN difference < maxOverlapping /\ difference > tolerance

\* Mutant: any silence not starting exactly at 0 overlaps (0 for tolerance).
overlapsAtTheBeginning_noTolerance(p) ==
    IF Len(p.silences) = 0 THEN FALSE
    ELSE LET firstSilence == p.silences[1]
         IN firstSilence.start < maxOverlapping /\ firstSilence.start > 0

overlapsAtTheBeginning(p) ==
    IF Len(p.silences) = 0 THEN FALSE
    ELSE LET firstSilence == p.silences[1]
         IN firstSilence.start < maxOverlapping /\ firstSilence.start > tolerance

\* Mutant: the empty short set is answered like the overlap predicates do.
truncatedAtTheBeginning_emptyFalse(p) ==
    IF Len(p.silences) = 0 THEN FALSE
    ELSE p.silences[1].start >= maxOverlapping

truncatedAtTheBeginning(p) ==
    IF Len(p.silences) = 0 THEN TRUE
    ELSE p.silences[1].start >= maxOverlapping

truncatedAtTheEnd(p) ==
    IF Len(p.silences) = 0 THEN TRUE
    ELSE LET lastSilence == p.silences[Len(p.silences)]
             difference == p.duration - lastSilence.end
         IN difference >= maxOverlapping

hugeSilenceAtTheBeginning(p) ==
    IF Len(p.longSilences) = 0 THEN FALSE
    ELSE ~(p.longSilences[1].start >= maxOverlapping)

hugeSilenceAtTheEnd(p) ==
    IF Len(p.longSilences) = 0 THEN FALSE
    ELSE LET lastSilence == p.longSilences[Len(p.longSilences)]
             difference == p.duration - lastSilence.end
         IN ~(difference >= maxOverlapping)

\* ------------------------------------------------------------- planner
Max(a, b) == IF a > b THEN a ELSE b
Min(a, b) == IF a < b THEN a ELSE b

\* Mutant: the start is raised by the end of the first short silence.
planWindow_shortEnd(p) ==
    LET start1 == IF Len(p.silences) > 0 /\ p.silences[1].end > tolerance
                     /\ p.silences[1].end < maxOverlapping
                  THEN Max(0, p.silences[1].end + silenceTolerance)
                  ELSE 0
        start2 == IF hugeSilenceAtTheBeginning(p)
                  THEN Max(start1, p.longSilences[1].end - maxSilence)
                  ELSE start1
        end1 == IF overlapsAtTheEnd(p)
                THEN Min(p.duration, p.silences[Len(p.silences)].end - silenceTolerance)
                ELSE p.duration
        end2 == IF hugeSilenceAtTheEnd(p)
                THEN Min(end1, p.longSilences[Len(p.longSilences)].start + maxSilence)
                ELSE end1
    IN [start |-> start2, end |-> end2]

\* Mutant: the huge silence at the start is measured from its start.
planWindow_longStart(p) ==
    LET start1 == IF overlapsAtTheBeginning(p)
                  THEN Max(0, p.silences[1].start + silenceTolerance)
                  ELSE 0
        start2 == IF hugeSilenceAtTheBeginning(p)
                  THEN Max(start1, p.longSilences[1].start - maxSilence)
                  ELSE start1
        end1 == IF overlapsAtTheEnd(p)
                THEN Min(p.duration, p.silences[Len(p.silences)].end - silenceTolerance)
                ELSE p.duration
        end2 == IF hugeSilenceAtTheEnd(p)
                THEN Min(end1, p.longSilences[Len(p.longSilences)].start + maxSilence)
                ELSE end1
    IN [start |-> start2, end |-> end2]

\* The trim window the fix worker computes for a track.
planWindow(p) ==
    LET start0 == 0
        end0 == p.duration
        start1 == IF overlapsAtTheBeginning(p)
                  THEN Max(start0, p.silences[1].start + silenceTolerance)
                  ELSE start0
        start2 == IF hugeSilenceAtTheBeginning(p)
                  THEN Max(start1, p.longSilences[1].end - maxSilence)
                  ELSE start1
        end1 == IF overlapsAtTheEnd(p)
                THEN Min(end0, p.silences[Len(p.silences)].end - silenceTolerance)
                ELSE end0
        end2 == IF hugeSilenceAtTheEnd(p)
                THEN Min(end1, p.longSilences[Len(p.longSilences)].start + maxSilence)
                ELSE end1
    IN [start |-> start2, end |-> end2]

\* Mutant: the window is not tested.
needsTrim_always(p, w) == TRUE

\* if start != 0 || end != track.duration
needsTrim(p, w) == w.start # 0 \/ w.end # p.duration

\* Mutant: the error of cmd.Run is not tested.
afterRun_ignoreErr(ok) == "rmorig"

\* if err == nil { remove; rename }: where the worker goes after cmd.Run.
afterRun(ok) == IF ok THEN "rmorig" ELSE "f_add"

\* ------------------------------------------------------- countProblems
\* Mutant: the two tests are independent ifs instead of if / else if.
countTrack_noElse(p, acc) ==
    LET a1 == IF truncatedAtTheBeginning(p) \/ truncatedAtTheEnd(p)
              THEN [problems |-> acc.problems + 1, fixable |-> acc.fixable]
              ELSE acc
    IN IF \/ overlapsAtTheEnd(p) \/ overlapsAtTheBeginning(p)
          \/ hugeSilenceAtTheBeginning(p) \/ hugeSilenceAtTheEnd(p)
       THEN [problems |-> a1.problems + 1, fixable |-> a1.fixable + 1]
       ELSE a1

\* One iteration of the loop body: the counters after the track.
countTrack(p, acc) ==
    IF truncatedAtTheBeginning(p) \/ truncatedAtTheEnd(p)
    THEN [problems |-> acc.problems + 1, fixable |-> acc.fixable]
    ELSE IF \/ overlapsAtTheEnd(p) \/ overlapsAtTheBeginning(p)
            \/ hugeSilenceAtTheBeginning(p) \/ hugeSilenceAtTheEnd(p)
    THEN [problems |-> acc.problems + 1, fixable |-> acc.fixable + 1]
    ELSE acc

RECURSIVE countLoop(_, _, _, _)
countLoop(profiles, n, i, acc) ==
    IF i > n THEN acc
    ELSE countLoop(profiles, n, i + 1, countTrack(profiles[i], acc))

countProblems(profiles, n) ==
    countLoop(profiles, n, 1, [problems |-> 0, fixable |-> 0])

\* ----------------------------------------------------------- recordings
\* What the detection tool prints for a file, per profile. Each recording
\* is one file's content: the short run reports silences of at least 0.2 s,
\* the long run silences of at least 2.4 s, after the Duration line.
Recordings == <<
    \* 200 s, silence touching both ends
    [short |-> <<OtherLine, DurationLine(0, 3, 2000, 0), StartLine(0), EndLine(50),
                 StartLine(19950), EndLine(20000), OtherLine>>,
     long  |-> <<OtherLine, DurationLine(0, 3, 2000, 0), OtherLine>>],
    \* 200 s, audio before the leading silence
    [short |-> <<OtherLine, DurationLine(0, 3, 2000, 0), StartLine(30), EndLine(100),
                 StartLine(19950), EndLine(20000), OtherLine>>,
     long  |-> <<OtherLine, DurationLine(0, 3, 2000, 0), OtherLine>>],
    \* 100 s, first silence after 15 s, 6 s of dead air ending 4 s before the end
    [short |-> <<OtherLine, DurationLine(0, 1, 4000, 0), StartLine(1500), EndLine(1600),
                 StartLine(9000), EndLine(9600), OtherLine>>,
     long  |-> <<OtherLine, DurationLine(0, 1, 4000, 0), StartLine(9000), EndLine(9600),
                 OtherLine>>],
    \* no line the duration expression matches (bitrate N/A)
    [short |-> <<OtherLine, OtherLine, StartLine(0), EndLine(50), OtherLine>>,
     long  |-> <<OtherLine, OtherLine, OtherLine>>],
    \* 5 s, a single 0.2 s silence at the very start
    [short |-> <<OtherLine, DurationLine(0, 0, 500, 0), StartLine(0), EndLine(20), OtherLine>>,
     long  |-> <<OtherLine, DurationLine(0, 0, 500, 0), OtherLine>>],
    \* 300 s, 5 s of dead air at the start
    [short |-> <<OtherLine, DurationLine(0, 5, 0, 0), StartLine(0), EndLine(500),
                 StartLine(29950), EndLine(30000), OtherLine>>,
     long  |-> <<OtherLine, DurationLine(0, 5, 0, 0), StartLine(0), EndLine(500), OtherLine>>],
    \* a file the tool cannot open: nothing is printed
    [short |-> NoOutput, long |-> NoOutput]
>>

RecordingIds == 1..Len(Recordings)

\* A family of further file contents, numbered after the recordings above:
\* a printed duration (or none), at most one silence near the start and at
\* most one near the end, at the values where the thresholds of the
\* classifier and of the parser change their answer.
FamilyDurations == <<0, 500, 20000, 30000>>      \* 0: no Duration line
FamilyFirstStarts == <<0, 1, 2, 30, 999, 1000>>
FamilyFirstLens == <<20, 30, 60, 61, 500>>
FamilyLastGaps == <<0, 1, 2, 400, 999, 1000>>    \* audio after the last silence
FamilyLastLens == <<50, 600>>
ToolLongMin == maxSilence + silenceTolerance     \* silencedetect=d= of the long run

NumFirst == Len(FamilyFirstStarts) * Len(FamilyFirstLens) + 1
NumLast == Len(FamilyLastGaps) * Len(FamilyLastLens) + 1
FamilySize == Len(FamilyDurations) * NumFirst * NumLast * 2

\* The content numbered c: its duration line, the silences the short run
\* reports, and whether the long run reports those of them it can.
familyContent(c) ==
    LET di == c % Len(FamilyDurations)
        c1 == c \div Len(FamilyDurations)
        fi == c1 % NumFirst
        c2 == c1 \div NumFirst
        li == c2 % NumLast
        lg == (c2 \div NumLast) % 2
        printed == FamilyDurations[di + 1]
        length == IF printed = 0 THEN 20000 ELSE printed
        first == IF fi = 0 THEN <<>>
                 ELSE LET st == FamilyFirstStarts[((fi - 1) \div Len(FamilyFirstLens)) + 1]
                          ln == FamilyFirstLens[((fi - 1) % Len(FamilyFirstLens)) + 1]
                      IN <<silence(st, st + ln)>>
        last == IF li = 0 THEN <<>>
                ELSE LET gap == FamilyLastGaps[((li - 1) \div Len(FamilyLastLens)) + 1]
                         ln == FamilyLastLens[((li - 1) % Len(FamilyLastLens)) + 1]
                     IN <<silence(length - gap - ln, length - gap)>>
        short == first \o last
        isLong(x) == x.end - x.start >= ToolLongMin
    IN [printed |-> printed, length |-> length, short |-> short,
        long |-> IF lg = 1 THEN SelectSeq(short, isLong) ELSE <<>>,
        wantLong |-> lg = 1]

\* The contents of the family a file can have: silences in order, apart,
\* inside the audio; the long run is listed only where it has something.
familyValid(c) ==
    LET f == familyContent(c)
    IN /\ \A i \in 1..Len(f.short) : f.short[i].start >= 0 /\ f.short[i].end <= f.length
       /\ Len(f.short) = 2 => f.short[1].end < f.short[2].start
       /\ f.wantLong => Len(f.long) > 0

FamilyIds == {Len(Recordings) + 1 + c : c \in {x \in 0..(FamilySize - 1) : familyValid(x)}}

\* The text the tool prints: the Duration line (with a start offset), then
\* a silence_start / silence_end pair per silence.
RECURSIVE silenceLines(_, _)
silenceLines(ss, i) ==
    IF i > Len(ss) THEN <<>>
    ELSE <<StartLine(ss[i].start), EndLine(ss[i].end)>> \o silenceLines(ss, i + 1)

familyOutput(c, longSilence) ==
    LET f == familyContent(c)
        head == IF f.printed = 0 THEN <<OtherLine, OtherLine>>
                ELSE <<OtherLine, DurationLine(0, f.printed \div 6000,
                                               (f.printed % 6000) + 3, 3)>>
    IN head \o silenceLines(IF longSilence THEN f.long ELSE f.short, 1) \o <<OtherLine>>

\* exec.Command("ffmpeg", ...).CombinedOutput() for the file's content.
detectOutput(r, longSilence) ==
    IF r \in RecordingIds
    THEN IF longSilence THEN Recordings[r].long ELSE Recordings[r].short
    ELSE familyOutput(r - Len(Recordings) - 1, longSilence)

\* ------------------------------------------------------------ logProblems
\* Mutant: the flag of the huge silence at the end is never set.
problemFlags_noHugeEnd(p) ==
    << IF truncatedAtTheBeginning(p) THEN "T" ELSE "-",
       IF overlapsAtTheBeginning(p) THEN "O" ELSE "-",
       IF hugeSilenceAtTheBeginning(p) THEN "S" ELSE "-",
       " ",
       "-",
       IF overlapsAtTheEnd(p) THEN "O" ELSE "-",
       IF truncatedAtTheEnd(p) THEN "T" ELSE "-" >>

\* The six-flag string built for a track, one element per character.
problemFlags(p) ==
    << IF truncatedAtTheBeginning(p) THEN "T" ELSE "-",
       IF overlapsAtTheBeginning(p) THEN "O" ELSE "-",
       IF hugeSilenceAtTheBeginning(p) THEN "S" ELSE "-",
       " ",
       IF hugeSilenceAtTheEnd(p) THEN "S" ELSE "-",
       IF overlapsAtTheEnd(p) THEN "O" ELSE "-",
       IF truncatedAtTheEnd(p) THEN "T" ELSE "-" >>

NoFlags == <<"-", "-", "-", " ", "-", "-", "-">>

\* ------------------------------------------------------------------ state
VARIABLES
    ntracks,    \* number of tracks getFolderData found
    content,    \* content[t]: which recording the file of track t holds
    tracks,     \* tracks[t]: the fields silences, longSilences, duration
    fix, sort,  \* the two command-line flags
    mpc,        \* where main is
    problems, fixable,   \* main's two counters
    logged,     \* tracks logProblems printed a line for
    unsent,     \* tracks the producer loop has not sent yet
    closed,     \* trackChannel is closed
    wg,         \* the WaitGroup counter
    pbTotal, pbCount,    \* the progress bar: its maximum, and the Add(1) calls
    wpc,        \* wpc[w]: where worker w is
    wtrack,     \* wtrack[w]: the track worker w received (0: none)
    wwin,       \* wwin[w]: the worker's locals start and end
    file,       \* file[t]: what the name track.path holds
    tmp,        \* tmp[t]: what the name track.path + ".tmp.mp3" holds
    calls,      \* calls[t]: detection calls completed for t
    window,     \* window[t]: the window planned for t, once planned
    trimRun, removeRes, renameRes,  \* outcome of cmd.Run, os.Remove, os.Rename for t
    processed,  \* processed[t]: a fix worker finished t
    reported    \* files an error was printed for

vars == <<ntracks, content, tracks, fix, sort, mpc, problems, fixable, logged,
          unsent, closed, wg, pbTotal, pbCount, wpc, wtrack, wwin, file, tmp,
          calls, window, trimRun, removeRes, renameRes, processed, reported>>

trackVars == <<ntracks, content>>
mainVars == <<fix, sort, mpc, problems, fixable, logged>>
chanVars == <<unsent, closed, wg, pbTotal>>
fsVars == <<file, tmp, trimRun, removeRes, renameRes, reported>>

Tracks == 1..ntracks
NoWindow == [start |-> -1, end |-> -1]
emptyProfile == [silences |-> <<>>, longSilences |-> <<>>, duration |-> 0]

\* The state main starts in, whatever the collection.
InitRun ==
    /\ tracks = [t \in AllTracks |-> emptyProfile]
    \* With both flags set main runs as with fix alone up to its last call,
    \* sortData, which is outside this model.
    /\ fix \in BOOLEAN
    /\ sort \in BOOLEAN
    /\ ~(fix /\ sort)
    /\ mpc = "start"
    /\ problems = 0 /\ fixable = 0
    /\ logged = {}
    /\ unsent = {} /\ closed = FALSE /\ wg = 0
    /\ pbTotal = 0 /\ pbCount = 0
    /\ wpc = [w \in Workers |-> "idle"]
    /\ wtrack = [w \in Workers |-> 0]
    /\ wwin = [w \in Workers |-> NoWindow]
    /\ file = [t \in AllTracks |-> "orig"]
    /\ tmp = [t \in AllTracks |-> "none"]
    /\ calls = [t \in AllTracks |-> 0]
    /\ window = [t \in AllTracks |-> NoWindow]
    /\ trimRun = [t \in AllTracks |-> "none"]
    /\ removeRes = [t \in AllTracks |-> "none"]
    /\ renameRes = [t \in AllTracks |-> "none"]
    /\ processed = [t \in AllTracks |-> FALSE]
    /\ reported = {}

Init ==
    \* A Go map is ranged over in arbitrary order and the producers below send
    \* the tracks in any order, so a collection is listed here by content.
    /\ ntracks \in 0..NumTracks
    /\ content \in [AllTracks -> RecordingIds]
    /\ \A t \in AllTracks : t > ntracks => content[t] = 1
    /\ \A t, u \in 1..ntracks : t < u => content[t] <= content[u]
    /\ InitRun

\* A collection of one track, its file any content of the family.
InitTrack ==
    /\ ntracks = 1
    /\ \E r \in FamilyIds : content = [t \in AllTracks |-> IF t = 1 THEN r ELSE 1]
    /\ InitRun

\* ------------------------------------------------------------------- main
\* Mutant: analyse is run under the condition of logProblems.
runsAnalysis_asLog == ~fix /\ ~sort

\* if c.Bool("fix") || !c.Bool("sort") { analyse(data) }
runsAnalysis == fix \/ ~sort

\* if c.Bool("fix") || !c.Bool("sort") { problems, fixable = countProblems(data) }
runsCount == fix \/ ~sort

\* if !c.Bool("fix") && !c.Bool("sort") { logProblems(data) }
runsLog == ~fix /\ ~sort

\* Mutant: the wait does not block.
waitReturns_noBlock(n) == TRUE

\* wg.Wait() returns when the counter is zero.
waitReturns(n) == n = 0

\* analyse: create the bar and the channel, start the workers.
AnalyseStart ==
    /\ mpc = "start"
    /\ IF runsAnalysis
       THEN /\ mpc' = "a_send"
            /\ unsent' = Tracks /\ closed' = FALSE /\ wg' = workers
            /\ pbTotal' = ntracks /\ pbCount' = 0
            /\ wpc' = [w \in Workers |-> "recv"]
       ELSE /\ mpc' = "log"
            /\ UNCHANGED <<unsent, closed, wg, pbTotal, pbCount, wpc>>
    /\ UNCHANGED <<trackVars, tracks, fix, sort, problems, fixable, logged,
                   wtrack, wwin, fsVars, calls, window, processed>>

\* Mutant: the producer hands the track over but keeps it to send again.
ASend_keepsQueued(t, w) ==
    /\ mpc = "a_send" /\ t \in unsent /\ wpc[w] = "recv"
    /\ wtrack' = [wtrack EXCEPT ![w] = t]
    /\ wpc' = [wpc EXCEPT ![w] = "short"]
    /\ UNCHANGED <<trackVars, tracks, mainVars, unsent, closed, wg, pbTotal, pbCount,
                   wwin, fsVars, calls, window, processed>>

\* trackChannel <- track, received by a worker waiting in its range loop.
ASend(t, w) ==
    /\ mpc = "a_send" /\ t \in unsent /\ wpc[w] = "recv"
    /\ unsent' = unsent \ {t}
    /\ wtrack' = [wtrack EXCEPT ![w] = t]
    /\ wpc' = [wpc EXCEPT ![w] = "short"]
    /\ UNCHANGED <<trackVars, tracks, mainVars, closed, wg, pbTotal, pbCount, wwin,
                   fsVars, calls, window, processed>>

\* track.silences, track.duration = getSilenceInfo(track.path, false)
DetectShort(w) ==
    /\ wpc[w] = "short"
    /\ LET t == wtrack[w]
           r == getSilenceInfo(detectOutput(content[t], FALSE))
       IN /\ tracks' = [tracks EXCEPT ![t].silences = r.silences,
                                      ![t].duration = r.duration]
          /\ calls' = [calls EXCEPT ![t] = @ + 1]
    /\ wpc' = [wpc EXCEPT ![w] = "long"]
    /\ UNCHANGED <<trackVars, mainVars, chanVars, pbCount, wtrack, wwin, fsVars,
                   window, processed>>

\* track.longSilences, _ = getSilenceInfo(track.path, true)
DetectLong(w) ==
    /\ wpc[w] = "long"
    /\ LET t == wtrack[w]
           r == getSilenceInfo(detectOutput(content[t], TRUE))
       IN /\ tracks' = [tracks EXCEPT ![t].longSilences = r.silences]
          /\ calls' = [calls EXCEPT ![t] = @ + 1]
    /\ wpc' = [wpc EXCEPT ![w] = "a_add"]
    /\ UNCHANGED <<trackVars, mainVars, chanVars, pbCount, wtrack, wwin, fsVars,
                   window, processed>>

\* pb.Add(1), and back to the head of the range loop (analyse).
AAdd(w) ==
    /\ wpc[w] = "a_add"
    /\ pbCount' = pbCount + 1
    /\ wpc' = [wpc EXCEPT ![w] = "recv"]
    /\ wtrack' = [wtrack EXCEPT ![w] = 0]
    /\ UNCHANGED <<trackVars, tracks, mainVars, chanVars, wwin, fsVars, calls,
                   window, processed>>

\* Mutant: the producer goes on to wait without closing the channel.
Close_forgotten ==
    /\ mpc \in {"a_send", "f_send"} /\ unsent = {}
    /\ mpc' = IF mpc = "a_send" THEN "a_wait" ELSE "f_wait"
    /\ UNCHANGED <<trackVars, tracks, fix, sort, problems, fixable, logged, unsent,
                   closed, wg, pbTotal, pbCount, wpc, wtrack, wwin, fsVars, calls,
                   window, processed>>

\* close(trackChannel), after the producer loops.
Close ==
    /\ mpc \in {"a_send", "f_send"} /\ unsent = {}
    /\ closed' = TRUE
    /\ mpc' = IF mpc = "a_send" THEN "a_wait" ELSE "f_wait"
    /\ UNCHANGED <<trackVars, tracks, fix, sort, problems, fixable, logged, unsent,
                   wg, pbTotal, pbCount, wpc, wtrack, wwin, fsVars, calls, window,
                   processed>>

\* The range loop ends on the closed channel: wg.Done().
WorkerExit(w) ==
    /\ wpc[w] = "recv" /\ closed
    /\ wpc' = [wpc EXCEPT ![w] = "exit"]
    /\ wg' = wg - 1
    /\ UNCHANGED <<trackVars, tracks, mainVars, unsent, closed, pbTotal, pbCount,
                   wtrack, wwin, fsVars, calls, window, processed>>

\* wg.Wait(); pb.Finish(): analyse returns.
AWait ==
    /\ mpc = "a_wait" /\ waitReturns(wg)
    /\ mpc' = "log"
    /\ UNCHANGED <<trackVars, tracks, fix, sort, problems, fixable, logged, chanVars,
                   pbCount, wpc, wtrack, wwin, fsVars, calls, window, processed>>

\* if !c.Bool("fix") && !c.Bool("sort") { logProblems(data) }
LogProblems ==
    /\ mpc = "log"
    /\ logged' = IF runsLog
                 THEN {t \in Tracks : problemFlags(tracks[t]) # NoFlags}
                 ELSE logged
    /\ mpc' = "count"
    /\ UNCHANGED <<trackVars, tracks, fix, sort, problems, fixable, chanVars, pbCount,
                   wpc, wtrack, wwin, fsVars, calls, window, processed>>

\* problems, fixable = countProblems(data)
CountProblems ==
    /\ mpc = "count"
    /\ IF runsCount
       THEN LET c == countProblems(tracks, ntracks)
            IN problems' = c.problems /\ fixable' = c.fixable
       ELSE UNCHANGED <<problems, fixable>>
    /\ mpc' = "counted"
    /\ UNCHANGED <<trackVars, tracks, fix, sort, logged, chanVars, pbCount,
                   wpc, wtrack, wwin, fsVars, calls, window, processed>>

\* if c.Bool("fix") { fixProblems(fixable, data) }: create the bar
\* (progressbar.Default(int64(fixable))) and the channel, start the workers.
FixStart ==
    /\ mpc = "counted"
    /\ IF fix
       THEN /\ mpc' = "f_send"
            /\ unsent' = Tracks /\ closed' = FALSE /\ wg' = workers
            /\ pbTotal' = fixable /\ pbCount' = 0
            /\ wpc' = [w \in Workers |-> "recv"]
       ELSE /\ mpc' = "done"
            /\ UNCHANGED <<unsent, closed, wg, pbTotal, pbCount, wpc>>
    /\ UNCHANGED <<trackVars, tracks, fix, sort, problems, fixable, logged,
                   wtrack, wwin, fsVars, calls, window, processed>>

\* trackChannel <- track in fixProblems: the producer sends every track.
FSend(t, w) ==
    /\ mpc = "f_send" /\ t \in unsent /\ wpc[w] = "recv"
    /\ unsent' = unsent \ {t}
    /\ wtrack' = [wtrack EXCEPT ![w] = t]
    /\ wpc' = [wpc EXCEPT ![w] = "plan"]
    /\ UNCHANGED <<trackVars, tracks, mainVars, closed, wg, pbTotal, pbCount, wwin,
                   fsVars, calls, window, processed>>

\* The worker computes start and end and tests the window.
Plan(w) ==
    /\ wpc[w] = "plan"
    /\ LET t == wtrack[w]
           win == planWindow(tracks[t])
       IN /\ wwin' = [wwin EXCEPT ![w] = win]
          /\ window' = [window EXCEPT ![t] = win]
          /\ wpc' = [wpc EXCEPT ![w] =
                        IF needsTrim(tracks[t], win) THEN "rmtmp" ELSE "f_add"]
    /\ UNCHANGED <<trackVars, tracks, mainVars, chanVars, pbCount, wtrack, fsVars,
                   calls, processed>>

\* os.Remove(track.path + ".tmp.mp3"); its error is dropped.
RemoveTmp(w, ok) ==
    /\ wpc[w] = "rmtmp"
    /\ LET t == wtrack[w]
       IN /\ ok => tmp[t] # "none"
          /\ tmp' = [tmp EXCEPT ![t] = IF ok THEN "none" ELSE @]
    /\ wpc' = [wpc EXCEPT ![w] = "run"]
    /\ UNCHANGED <<trackVars, tracks, mainVars, chanVars, pbCount, wtrack, wwin,
                   file, trimRun, removeRes, renameRes, reported, calls, window,
                   processed>>

\* err := cmd.Run(): the trim tool writes the temporary file. It succeeds
\* only onto a free name; failing, it may leave a partial file behind.
Run(w, ok, partial) ==
    /\ wpc[w] = "run"
    /\ LET t == wtrack[w]
       IN /\ ok => tmp[t] = "none" /\ ~partial
          /\ partial => tmp[t] = "none"
          /\ tmp' = [tmp EXCEPT ![t] = IF ok THEN "complete"
                                       ELSE IF partial THEN "partial" ELSE @]
          /\ trimRun' = [trimRun EXCEPT ![t] = IF ok THEN "ok" ELSE "fail"]
    /\ wpc' = [wpc EXCEPT ![w] = afterRun(ok)]
    /\ UNCHANGED <<trackVars, tracks, mainVars, chanVars, pbCount, wtrack, wwin,
                   file, removeRes, renameRes, reported, calls, window, processed>>

\* os.Remove(track.path); its error is dropped.
RemoveOrig(w, ok) ==
    /\ wpc[w] = "rmorig"
    /\ LET t == wtrack[w]
       IN /\ ok => file[t] # "missing"
          /\ file' = [file EXCEPT ![t] = IF ok THEN "missing" ELSE @]
          /\ removeRes' = [removeRes EXCEPT ![t] = IF ok THEN "ok" ELSE "fail"]
    /\ wpc' = [wpc EXCEPT ![w] = "rename"]
    /\ UNCHANGED <<trackVars, tracks, mainVars, chanVars, pbCount, wtrack, wwin,
                   tmp, trimRun, renameRes, reported, calls, window, processed>>

\* os.Rename(track.path + ".tmp.mp3", track.path); its error is dropped.
Rename(w, ok) ==
    /\ wpc[w] = "rename"
    /\ LET t == wtrack[w]
       IN /\ ok => tmp[t] # "none"
          /\ file' = [file EXCEPT ![t] = IF ok THEN "trimmed" ELSE @]
          /\ tmp' = [tmp EXCEPT ![t] = IF ok THEN "none" ELSE @]
          /\ renameRes' = [renameRes EXCEPT ![t] = IF ok THEN "ok" ELSE "fail"]
    /\ wpc' = [wpc EXCEPT ![w] = "f_add"]
    /\ UNCHANGED <<trackVars, tracks, mainVars, chanVars, pbCount, wtrack, wwin,
                   trimRun, removeRes, reported, calls, window, processed>>

\* pb.Add(1), and back to the head of the range loop (fixProblems).
FAdd(w) ==
    /\ wpc[w] = "f_add"
    /\ pbCount' = pbCount + 1
    /\ processed' = [processed EXCEPT ![wtrack[w]] = TRUE]
    /\ wpc' = [wpc EXCEPT ![w] = "recv"]
    /\ wtrack' = [wtrack EXCEPT ![w] = 0]
    /\ wwin' = [wwin EXCEPT ![w] = NoWindow]
    /\ UNCHANGED <<trackVars, tracks, mainVars, chanVars, fsVars, calls, window>>

\* wg.Wait(); pb.Finish(): fixProblems returns.
FWait ==
    /\ mpc = "f_wait" /\ waitReturns(wg)
    /\ mpc' = "done"
    /\ UNCHANGED <<trackVars, tracks, fix, sort, problems, fixable, logged, chanVars,
                   pbCount, wpc, wtrack, wwin, fsVars, calls, window, processed>>

Next ==
    \/ AnalyseStart
    \/ \E t \in AllTracks, w \in Workers : ASend(t, w)
    \/ \E w \in Workers : DetectShort(w)
    \/ \E w \in Workers : DetectLong(w)
    \/ \E w \in Workers : AAdd(w)
    \/ Close
    \/ \E w \in Workers : WorkerExit(w)
    \/ AWait
    \/ LogProblems
    \/ CountProblems
    \/ FixStart
    \/ \E t \in AllTracks, w \in Workers : FSend(t, w)
    \/ \E w \in Workers : Plan(w)
    \/ \E w \in Workers, ok \in BOOLEAN : RemoveTmp(w, ok)
    \/ \E w \in Workers, ok \in BOOLEAN, partial \in BOOLEAN : Run(w, ok, partial)
    \/ \E w \in Workers, ok \in BOOLEAN : RemoveOrig(w, ok)
    \/ \E w \in Workers, ok \in BOOLEAN : Rename(w, ok)
    \/ \E w \in Workers : FAdd(w)
    \/ FWait

Spec == Init /\ [][Next]_vars

\* The same program run on a single track of the family.
SpecTrack == InitTrack /\ [][Next]_vars

\* The Go scheduler runs a goroutine that can take a step, and every call
\* of the external tool returns: some enabled step is eventually taken.
LiveSpec == Init /\ [][Next]_vars /\ WF_vars(Next)

\* ----------------------------------------------------------------- claims
isTruncated(p) == truncatedAtTheBeginning(p) \/ truncatedAtTheEnd(p)
isFixable(p) ==
    /\ ~isTruncated(p)
    /\ \/ overlapsAtTheEnd(p) \/ overlapsAtTheBeginning(p)
       \/ hugeSilenceAtTheBeginning(p) \/ hugeSilenceAtTheEnd(p)

\* analyse has just returned; countProblems has just returned.
analyseReturned == mpc = "log" /\ runsAnalysis
countReturned == mpc = "counted" /\ runsCount
\* fixProblems was called and has returned.
fixReturned == fix /\ mpc = "done"
\* Both detection calls for t printed nothing.
noOutput(t) ==
    /\ detectOutput(content[t], FALSE) = NoOutput
    /\ detectOutput(content[t], TRUE) = NoOutput
zeroCount == [problems |-> 0, fixable |-> 0]

\* C1: in the fix pass no trim command is run for a track for which
\* truncatedAtTheBeginning or truncatedAtTheEnd holds, and its file stays
\* as it was.
C1_NoTrimOnTruncated ==
    \A t \in Tracks :
        isTruncated(tracks[t]) => trimRun[t] = "none" /\ file[t] = "orig"

\* C2: in every state the original file name holds the complete original
\* or the complete trimmed content; it is never missing.
C2_OriginalNameAlwaysComplete ==
    \A t \in Tracks : file[t] \in {"orig", "trimmed"}

\* C3: when the trim command fails for a track, the file under the
\* original path is unchanged: the original is not removed and the
\* temporary file is not renamed onto it.
C3_FailedTrimLeavesOriginal ==
    \A t \in Tracks :
        trimRun[t] = "fail" =>
            file[t] = "orig" /\ removeRes[t] = "none" /\ renameRes[t] = "none"

C3_Witness ==
    \E t \in Tracks : trimRun[t] = "fail" /\ processed[t] /\ fixReturned

\* C4: when the trim command fails for a track, no temporary file of the
\* track exists once the worker has finished the track.
C4_FailedTrimDiscardsTemp ==
    \A t \in Tracks :
        trimRun[t] = "fail" /\ processed[t] => tmp[t] = "none"

\* C5: a track whose output had no line matching the duration expression
\* is, once analysed, truncated at the beginning or at the end and counted
\* as one non-fixable problem.
C5_UnparsedDurationIsTruncated ==
    \A t \in Tracks :
        calls[t] = 2 /\ ~durationMatched(detectOutput(content[t], FALSE)) =>
            /\ isTruncated(tracks[t])
            /\ countTrack(tracks[t], zeroCount) = [problems |-> 1, fixable |-> 0]

\* C6: a track both of whose detection calls printed nothing ends analysis
\* with empty short and long sets and duration 0 and is truncated at both
\* ends; and analyse, having returned, has analysed every other track too.
C6_NoOutputIsTruncatedAndBatchGoesOn ==
    /\ \A t \in Tracks :
          calls[t] = 2 /\ noOutput(t) =>
              /\ tracks[t] = emptyProfile
              /\ truncatedAtTheBeginning(tracks[t])
              /\ truncatedAtTheEnd(tracks[t])
    /\ analyseReturned /\ (\E t \in Tracks : noOutput(t)) =>
          \A u \in Tracks : calls[u] = 2

C6_Witness ==
    /\ analyseReturned
    /\ \E t, u \in Tracks :
          /\ noOutput(t) /\ calls[t] = 2
          /\ ~noOutput(u) /\ calls[u] = 2 /\ tracks[u] # emptyProfile

\* C7: for every fixable track the window the fix worker planned
\* satisfies 0 <= start <= end <= duration.
C7_FixableWindowInRange ==
    \A t \in Tracks :
        window[t] # NoWindow /\ isFixable(tracks[t]) =>
            /\ 0 <= window[t].start
            /\ window[t].start <= window[t].end
            /\ window[t].end <= tracks[t].duration

\* C8: countProblems counts a truncated track once as a problem and never
\* as fixable, a track that is not truncated but overlaps or has a huge
\* silence once as both, any other track not at all; so
\* fixable <= problems <= number of tracks.
C8_CountProblems ==
    countReturned =>
        /\ fixable = Cardinality({t \in Tracks : isFixable(tracks[t])})
        /\ problems = Cardinality({t \in Tracks : isTruncated(tracks[t])}) + fixable
        /\ fixable <= problems /\ problems <= ntracks

C8_Witness ==
    /\ countReturned
    /\ \E t, u \in Tracks :
          /\ isTruncated(tracks[t]) /\ overlapsAtTheEnd(tracks[t])
          /\ hugeSilenceAtTheEnd(tracks[t])
          /\ isFixable(tracks[u])
    /\ problems = 2 /\ fixable = 1

\* C9: at the moment analyse returns, every track has been sent, both detection calls of every track are
\* complete, the track holds their results, and no worker of the pool is
\* still at work.
C9_AnalyseReturnsAfterAllProcessed ==
    analyseReturned =>
        /\ \A t \in Tracks :
              /\ calls[t] = 2
              /\ tracks[t].silences = getSilenceInfo(detectOutput(content[t], FALSE)).silences
              /\ tracks[t].duration = getSilenceInfo(detectOutput(content[t], FALSE)).duration
              /\ tracks[t].longSilences = getSilenceInfo(detectOutput(content[t], TRUE)).silences
        /\ \A w \in Workers : wpc[w] = "exit" /\ wtrack[w] = 0
        /\ unsent = {}

C9_Witness ==
    analyseReturned /\ ntracks = NumTracks /\ \A t \in Tracks : tracks[t] # emptyProfile

\* C10: when os.Remove of the original or os.Rename of the temporary file
\* fails for a track, an error is reported for that file.
C10_ReplaceFailureReported ==
    \A t \in Tracks :
        processed[t] /\ (removeRes[t] = "fail" \/ renameRes[t] = "fail") =>
            t \in reported

\* C11: the short detection call of a track completes before its long call
\* starts, both are made by the one worker holding the track, and a track
\* is planned or trimmed, and the classifier reads its profile (in
\* logProblems, countProblems or the fix worker), only after both calls.
C11_Step ==
    /\ \A w \in Workers :
          /\ wpc[w] = "long" => calls[wtrack[w]] = 1
          /\ wpc[w] = "long" /\ wpc'[w] = "long" => wtrack'[w] = wtrack[w]
    /\ \A t \in Tracks :
          /\ calls'[t] # calls[t] =>
                \E w \in Workers :
                    /\ wtrack[w] = t /\ wtrack'[w] = t
                    /\ \A u \in Workers \ {w} : wtrack[u] # t
                    /\ \/ /\ calls[t] = 0 /\ calls'[t] = 1
                          /\ wpc[w] = "short" /\ wpc'[w] = "long"
                       \/ /\ calls[t] = 1 /\ calls'[t] = 2
                          /\ wpc[w] = "long" /\ wpc'[w] = "a_add"
          /\ window'[t] # window[t] \/ trimRun'[t] # trimRun[t] => calls[t] = 2
    /\ mpc = "log" /\ mpc' = "count" /\ runsLog => \A t \in Tracks : calls[t] = 2
    /\ mpc = "count" /\ mpc' = "counted" /\ runsCount => \A t \in Tracks : calls[t] = 2

C11_DetectionBeforeRepair == [][C11_Step]_vars

C11_Witness ==
    \E t \in Tracks : calls[t] = 2 /\ window[t] # NoWindow /\ trimRun[t] = "ok"

\* None of the six predicates holds.
healthy(p) ==
    /\ ~truncatedAtTheBeginning(p) /\ ~truncatedAtTheEnd(p)
    /\ ~overlapsAtTheBeginning(p) /\ ~overlapsAtTheEnd(p)
    /\ ~hugeSilenceAtTheBeginning(p) /\ ~hugeSilenceAtTheEnd(p)

\* What an analysis of a file of content r writes into the track.
profileOf(r) ==
    [silences |-> getSilenceInfo(detectOutput(r, FALSE)).silences,
     longSilences |-> getSilenceInfo(detectOutput(r, TRUE)).silences,
     duration |-> getSilenceInfo(detectOutput(r, FALSE)).duration]

\* C12: logProblems prints a line for a track if and only if countProblems
\* counts the track as a problem; so the lines printed are as many as the
\* problems counted.
C12_LogMatchesCount ==
    countReturned /\ runsLog =>
        /\ \A t \in Tracks :
              t \in logged <=> countTrack(tracks[t], zeroCount).problems = 1
        /\ Cardinality(logged) = problems

C12_Witness ==
    /\ countReturned /\ runsLog
    /\ \E t \in Tracks :
          /\ t \in logged /\ hugeSilenceAtTheEnd(tracks[t])
          /\ ~overlapsAtTheEnd(tracks[t]) /\ ~overlapsAtTheBeginning(tracks[t])
          /\ ~hugeSilenceAtTheBeginning(tracks[t]) /\ ~isTruncated(tracks[t])

\* C13: for a track none of the six predicates holds for, the fix pass
\* plans the window [0, duration], runs no trim, remove or rename, leaves
\* the file and the profile as they were, and an analysis of the unchanged
\* file classifies the track healthy again.
C13_HealthyIsLeftAlone ==
    \A t \in Tracks :
        processed[t] /\ healthy(tracks[t]) =>
            /\ window[t] = [start |-> 0, end |-> tracks[t].duration]
            /\ trimRun[t] = "none" /\ removeRes[t] = "none" /\ renameRes[t] = "none"
            /\ file[t] = "orig" /\ tmp[t] = "none"
            /\ tracks[t] = profileOf(content[t])
            /\ healthy(profileOf(content[t]))

C13_Witness ==
    \E t \in Tracks :
        processed[t] /\ healthy(tracks[t]) /\ Len(tracks[t].silences) = 2

\* The workers holding track t, and the stage of t in the analysis:
\* 0 pending, 1 in flight, 2 analysed.
holders(t) == {w \in Workers : wtrack[w] = t}
trackStage(t) ==
    IF \E w \in holders(t) : wpc[w] \in {"short", "long", "a_add"} THEN 1
    ELSE IF calls[t] = 2 THEN 2 ELSE 0

\* C14: in analyse and in fixProblems a track is received from the channel
\* by one worker, once: it is taken from the tracks still to send, no two
\* workers hold it, only its holder touches its file, each detection call
\* is made once, the track goes pending, in flight, analysed and never
\* back, and at the return of either pass every track has been through.
C14_Step ==
    /\ \A t \in Tracks :
          /\ Cardinality(holders(t)) <= 1
          /\ \A w \in Workers :
                wtrack[w] # t /\ wtrack'[w] = t =>
                    /\ t \in unsent /\ t \notin unsent'
                    /\ holders(t) = {} /\ holders(t)' = {w}
          /\ calls'[t] \in {calls[t], calls[t] + 1} /\ calls'[t] <= 2
          /\ trackStage(t)' \in {trackStage(t), trackStage(t) + 1}
          /\ file'[t] # file[t] \/ tmp'[t] # tmp[t] \/ processed'[t] # processed[t] =>
                Cardinality(holders(t)) = 1 /\ ~processed[t]
    /\ unsent' \subseteq unsent \/ mpc \in {"start", "counted"}
    /\ mpc = "a_wait" /\ mpc' = "log" =>
          unsent = {} /\ \A t \in Tracks : trackStage(t) = 2
    /\ mpc = "f_wait" /\ mpc' = "done" =>
          unsent = {} /\ \A t \in Tracks : processed[t] /\ holders(t) = {}

C14_OneWorkerOncePerTrack == [][C14_Step]_vars

C14_Witness ==
    \E w, u \in Workers :
        /\ w # u /\ wtrack[w] # 0 /\ wtrack[u] # 0 /\ wtrack[w] # wtrack[u]
        /\ wpc[w] = "run" /\ wpc[u] = "rename"

\* C15: every run of main on a finite collection comes to its end: analyse
\* and fixProblems, once called, return.
C15_Terminates == <>(mpc = "done")

C15_Witness ==
    mpc = "done" /\ fix /\ ntracks = NumTracks /\ \A t \in Tracks : processed[t]

first(ss) == ss[1]
last(ss) == ss[Len(ss)]

\* C16 as stated: overlapsAtTheBeginning holds exactly when the short set
\* is non-empty and 0 < first.start < maxOverlapping, overlapsAtTheEnd
\* exactly when it is non-empty and 0 < duration - last.end < maxOverlapping.
C16_OverlapAsStated ==
    \A t \in Tracks :
        calls[t] = 2 =>
            LET p == tracks[t] IN
            /\ overlapsAtTheBeginning(p) <=>
                  /\ Len(p.silences) > 0
                  /\ 0 < first(p.silences).start
                  /\ first(p.silences).start < maxOverlapping
            /\ overlapsAtTheEnd(p) <=>
                  /\ Len(p.silences) > 0
                  /\ 0 < p.duration - last(p.silences).end
                  /\ p.duration - last(p.silences).end < maxOverlapping

\* C16 amended: the lower bound of both tests is tolerance, not 0.
C16_OverlapBeyondTolerance ==
    \A t \in Tracks :
        calls[t] = 2 =>
            LET p == tracks[t] IN
            /\ overlapsAtTheBeginning(p) <=>
                  /\ Len(p.silences) > 0
                  /\ tolerance < first(p.silences).start
                  /\ first(p.silences).start < maxOverlapping
            /\ overlapsAtTheEnd(p) <=>
                  /\ Len(p.silences) > 0
                  /\ tolerance < p.duration - last(p.silences).end
                  /\ p.duration - last(p.silences).end < maxOverlapping

C16_Witness ==
    \E t \in Tracks :
        /\ calls[t] = 2 /\ Len(tracks[t].silences) = 2
        /\ first(tracks[t].silences).start = tolerance
        /\ tracks[t].duration - last(tracks[t].silences).end = tolerance
        /\ ~overlapsAtTheBeginning(tracks[t]) /\ ~overlapsAtTheEnd(tracks[t])

\* The track of the scenario: 200 s, one short silence from 0.0 to 0.3.
scenario200(t) ==
    /\ calls[t] = 2
    /\ tracks[t].duration = 20000
    /\ tracks[t].silences = <<silence(0, 30)>>

\* C17 as stated: for the track of the scenario overlapsAtTheBeginning is
\* true, truncatedAtTheBeginning is false and the planned start is 0.7.
C17_ScenarioAsStated ==
    \A t \in Tracks :
        scenario200(t) =>
            /\ overlapsAtTheBeginning(tracks[t])
            /\ ~truncatedAtTheBeginning(tracks[t])
            /\ window[t] # NoWindow => window[t].start = 70

\* C17 amended: for the track of the scenario overlapsAtTheBeginning is
\* false (the silence starts at 0), truncatedAtTheBeginning is false and
\* the planned start is 0.
C17_ScenarioStartsAtZero ==
    \A t \in Tracks :
        scenario200(t) =>
            /\ ~overlapsAtTheBeginning(tracks[t])
            /\ ~truncatedAtTheBeginning(tracks[t])
            /\ window[t] # NoWindow => window[t].start = 0

C17_Witness ==
    \E t \in Tracks : scenario200(t) /\ window[t] # NoWindow /\ processed[t]

\* The window of the specification's planner, written out step by step.
statedWindow(p) ==
    LET s1 == IF overlapsAtTheBeginning(p)
              THEN first(p.silences).start + silenceTolerance ELSE 0
        s2 == IF hugeSilenceAtTheBeginning(p) /\ first(p.longSilences).end - maxSilence > s1
              THEN first(p.longSilences).end - maxSilence ELSE s1
        e1 == IF overlapsAtTheEnd(p)
              THEN last(p.silences).end - silenceTolerance ELSE p.duration
        e2 == IF hugeSilenceAtTheEnd(p) /\ last(p.longSilences).start + maxSilence < e1
              THEN last(p.longSilences).start + maxSilence ELSE e1
    IN [start |-> s2, end |-> e2]

\* C18: the window the fix worker plans is the one of the formula: start 0,
\* raised to first short start + silenceTolerance on an overlap at the
\* start, then to first long end - maxSilence if that is more, on a huge
\* silence at the start; end symmetrically. A 300 s track with short and
\* long set [{0, 5}] gets start 3.0.
C18_WindowAsStated ==
    \A t \in Tracks :
        window[t] # NoWindow =>
            /\ window[t] = statedWindow(tracks[t])
            /\ (/\ tracks[t].duration = 30000
                /\ tracks[t].silences = <<silence(0, 500)>>
                /\ tracks[t].longSilences = <<silence(0, 500)>>) => window[t].start = 300

C18_Witness ==
    \E t \in Tracks :
        /\ window[t] # NoWindow
        /\ tracks[t].duration = 30000
        /\ tracks[t].silences = <<silence(0, 500)>>
        /\ tracks[t].longSilences = <<silence(0, 500)>>

\* The silences a detection output reports, one per silence_end line, with
\* the start of the silence_start line before it.
RECURSIVE reportedSilences(_, _)
reportedSilences(output, i) ==
    IF i > Len(output) THEN <<>>
    ELSE IF output[i].kind = "silence_end" /\ i > 1 /\ output[i - 1].kind = "silence_start"
    THEN <<silence(output[i - 1].v, output[i].v)>> \o reportedSilences(output, i + 1)
    ELSE reportedSilences(output, i + 1)

\* The silences of output a filter with the given least length keeps, the
\* duration being d.
keptSilences(output, least, d) ==
    LET keep(x) == \/ x.end - x.start > least
                   \/ x.start < tolerance
                   \/ d - x.end < tolerance
    IN SelectSeq(reportedSilences(output, 1), keep)

\* C19 as stated: a reported silence is retained if and only if it is
\* longer than minSilence - tolerance (short profile) or maxSilence +
\* tolerance (long profile), or starts within tolerance of 0, or ends within
\* tolerance of the duration.
C19_RetainedAsStated ==
    \A t \in Tracks :
        calls[t] = 2 =>
            /\ tracks[t].silences =
                  keptSilences(detectOutput(content[t], FALSE), minSilence - tolerance,
                               tracks[t].duration)
            /\ tracks[t].longSilences =
                  keptSilences(detectOutput(content[t], TRUE), maxSilence + tolerance,
                               tracks[t].duration)

\* C19 amended: the least length is minSilence, for both profiles.
C19_RetainedAboveMinSilence ==
    \A t \in Tracks :
        calls[t] = 2 =>
            /\ tracks[t].silences =
                  keptSilences(detectOutput(content[t], FALSE), minSilence,
                               tracks[t].duration)
            /\ tracks[t].longSilences =
                  keptSilences(detectOutput(content[t], TRUE), minSilence,
                               tracks[t].duration)

C19_Witness ==
    \E t \in Tracks :
        /\ calls[t] = 2
        /\ \E i \in 1..Len(reportedSilences(detectOutput(content[t], FALSE), 1)) :
              LET x == reportedSilences(detectOutput(content[t], FALSE), 1)[i]
              IN x.end - x.start = minSilence /\ x.start >= tolerance
        /\ Len(tracks[t].silences) = 1
        /\ Len(tracks[t].longSilences) = 1

\* C20: for every track countProblems counts as fixable the planned window
\* differs from [0, duration], so that the trim is attempted; and the trim
\* command is run only for a window that differs from [0, duration].
C20_FixableIsTrimmed ==
    \A t \in Tracks :
        window[t] # NoWindow =>
            /\ isFixable(tracks[t]) => needsTrim(tracks[t], window[t])
            /\ trimRun[t] # "none" => needsTrim(tracks[t], window[t])

\* C21: the progress counter never exceeds the total the bar was created
\* with (the number of tracks in analyse, the fixable count in
\* fixProblems), and equals that total when analyse or fixProblems returns.
C21_ProgressWithinTotal ==
    /\ pbCount <= pbTotal
    /\ analyseReturned => pbCount = pbTotal
    /\ fixReturned => pbCount = pbTotal

\* C22: when fixProblems returns, the original path of every track holds a
\* complete file, the original or the trimmed one, whichever of the trim,
\* remove and rename steps failed.
C22_NoTrackLostAtReturn ==
    fixReturned => \A t \in Tracks : file[t] \in {"orig", "trimmed"}

====
